---- MODULE Spec2Model ----
(***************************************************************************)
(* The loading and aggregation pipeline of spotify_streamlit.py:           *)
(* load_streaming_files, clean_streaming_data, the key metrics and the     *)
(* grouped tables of the Artists, Songs, Timeline and Platform tabs.       *)
(* A DataFrame is a sequence of rows (records); a missing value (None/NaN) *)
(* in a string column is NULL; a float cell that can be NaN is the         *)
(* sequence <<v>> or, for NaN, <<>>.                                       *)
(***************************************************************************)
EXTENDS Integers, Sequences, FiniteSets, TLC

VARIABLES
    paths,            \* the list handed to load_streaming_files
    files,            \* the content of each file of ./streaming_history_files
    min_date,         \* None or a date string, as <<y, m, d>>
    max_date,
    pc,               \* position of the script
    todo,             \* what is left of `for p in sorted(paths)`
    streaming_data,   \* the frame being built by load_streaming_files
    columns,          \* whether streaming_data has any column yet
    audio_2025_df,    \* the loaded, then cleaned, frame
    error,            \* the exception that ended the run, if any
    total_minutes, total_songs, unique_songs, unique_artists,
    top_artists_plays, top_artists_minutes,
    top_songs_plays, top_songs_minutes,
    monthly_stats, dow_stats, platform_stats

vars == <<paths, files, min_date, max_date, pc, todo, streaming_data, columns,
          audio_2025_df, error, total_minutes, total_songs, unique_songs,
          unique_artists, top_artists_plays, top_artists_minutes,
          top_songs_plays, top_songs_minutes, monthly_stats, dow_stats,
          platform_stats>>

inputs == <<paths, files, min_date, max_date>>
metrics == <<total_minutes, total_songs, unique_songs, unique_artists>>
tables == <<top_artists_plays, top_artists_minutes, top_songs_plays,
            top_songs_minutes, monthly_stats, dow_stats, platform_stats>>

\* Total number of records over all the files of one run.
MaxRows == 3

None == <<>>
NULL == "NaN"
NoError == [type |-> "none", arg |-> ""]

----------------------------------------------------------------------------
(* Dates.  pd.to_datetime parses a timestamp string, here <<y, m, d, h>>,  *)
(* into an instant (hours since 1970-01-01T00Z); .dt.date is the day       *)
(* number of the instant; to_period("M") and day_name() go back from the   *)
(* day number to the civil calendar.                                       *)

DaysFromCivil(y, m, d) ==
    LET yy  == IF m <= 2 THEN y - 1 ELSE y
        era == yy \div 400
        yoe == yy - era * 400
        mp  == (m + 9) % 12
        doy == (153 * mp + 2) \div 5 + d - 1
        doe == yoe * 365 + yoe \div 4 - yoe \div 100 + doy
    IN  era * 146097 + doe - 719468

CivilFromDays(z0) ==
    LET z   == z0 + 719468
        era == z \div 146097
        doe == z - era * 146097
        yoe == (doe - doe \div 1460 + doe \div 36524 - doe \div 146096) \div 365
        doy == doe - (365 * yoe + yoe \div 4 - yoe \div 100)
        mp  == (5 * doy + 2) \div 153
        d   == doy - (153 * mp + 2) \div 5 + 1
        m   == IF mp < 10 THEN mp + 3 ELSE mp - 9
        y   == yoe + era * 400 + (IF m <= 2 THEN 1 ELSE 0)
    IN  <<y, m, d>>

\* pd.to_datetime(df["ts"]): the instant, in hours since the epoch
ToDatetime(ts) == DaysFromCivil(ts[1], ts[2], ts[3]) * 24 + ts[4]

\* .dt.date of an instant
DtDate(instant) == instant \div 24

\* pd.to_datetime(min_date).date() of a date string
BoundDate(s) == DaysFromCivil(s[1], s[2], s[3])

\* pd.to_datetime(stream_date).dt.to_period("M")
ToPeriodM(date) == <<CivilFromDays(date)[1], CivilFromDays(date)[2]>>

day_order == <<"Monday", "Tuesday", "Wednesday", "Thursday", "Friday",
               "Saturday", "Sunday">>

\* pd.to_datetime(stream_date).dt.day_name(); 1970-01-01 was a Thursday
DayName(date) == day_order[((date + 3) % 7) + 1]

----------------------------------------------------------------------------
(* Inputs.                                                                 *)

\* the directory listing, in lexicographic order
FileNames == <<"Streaming_History_Audio_2024-2025_0.json",
               "Streaming_History_Audio_2025_1.json">>

Rec(ts, track, artist, uri, platform, ms) ==
    [ts |-> ts, ms_played |-> ms,
     master_metadata_track_name |-> track,
     master_metadata_album_artist_name |-> artist,
     spotify_track_uri |-> uri, platform |-> platform,
     ip_addr |-> "ip"]

T_before == <<2024, 12, 31, 23>>
T_min    == <<2025, 1, 1, 0>>
T_mid    == <<2025, 1, 6, 12>>
T_max    == <<2025, 12, 31, 23>>
T_after  == <<2026, 1, 1, 0>>

RawRecords ==
    { Rec(T_min,    "A",  "X",  "u1", "ios", 60000),
      Rec(T_before, "A",  "X",  "u1", "ios", 120000),
      Rec(T_after,  "B",  "Y",  "u2", "osx", 30000),
      Rec(T_min,    NULL, NULL, NULL, "ios", 30000),
      Rec(T_mid,    "A",  "X",  "u3", "osx", 30000),
      Rec(T_mid,    "B",  NULL, "u2", "ios", 60000),
      Rec(T_max,    "B",  "Y",  NULL, "osx", 60000) }

RECURSIVE SeqsUpTo(_, _)
SeqsUpTo(S, n) ==
    IF n = 0 THEN {<<>>}
    ELSE LET shorter == SeqsUpTo(S, n - 1)
         IN  shorter \cup {Append(s, x) : s \in {t \in shorter : Len(t) = n - 1}, x \in S}

Malformed == [valid |-> FALSE, rows |-> <<>>]

\* os.listdir gives no order: the two-file list is the unsorted one
PathLists == {<<>>, <<FileNames[1]>>, <<FileNames[2]>>, <<FileNames[2], FileNames[1]>>}

InList(x, s) == \E k \in 1..Len(s) : s[k] = x

----------------------------------------------------------------------------
(* Orders.                                                                 *)

\* the strings of the model in Python's string order
Lexicographic == <<"A", "B", "NaN", "X", "Y", "ios", "osx", "u1", "u2", "u3">>

StrRank(s) ==
    IF InList(s, FileNames)
    THEN CHOOSE k \in 1..Len(FileNames) : FileNames[k] = s
    ELSE CHOOSE k \in 1..Len(Lexicographic) : Lexicographic[k] = s

\* the elements of S in ascending order of rank, a function on S
SortedSeq(S, rank) ==
    CHOOSE s \in [1..Cardinality(S) -> S] :
        \A a, b \in 1..Cardinality(S) : a < b => rank[s[a]] < rank[s[b]]

\* sorted(paths)
SortedPaths(ps) == SortedSeq({ps[k] : k \in 1..Len(ps)}, [x \in {ps[k] : k \in 1..Len(ps)} |-> StrRank(x)])

\* what a file not listed in paths holds is never read
ContentsFor(name, ps, room) ==
    IF InList(name, ps)
    THEN {Malformed} \cup {[valid |-> TRUE, rows |-> r] : r \in SeqsUpTo(RawRecords, room)}
    ELSE {[valid |-> TRUE, rows |-> <<>>]}

Init ==
    /\ paths \in PathLists
    /\ \E c1 \in ContentsFor(FileNames[1], paths, MaxRows) :
         \E c2 \in ContentsFor(FileNames[2], paths, MaxRows - Len(c1.rows)) :
            files = (FileNames[1] :> c1) @@ (FileNames[2] :> c2)
    /\ min_date \in {None, <<2025, 1, 1>>}
    /\ max_date \in {None, <<2025, 12, 31>>}
    /\ pc = "load"
    /\ todo = SortedPaths(paths)
    /\ streaming_data = <<>>
    /\ columns = FALSE
    /\ audio_2025_df = <<>>
    /\ error = NoError
    /\ total_minutes = 0 /\ total_songs = 0 /\ unique_songs = 0 /\ unique_artists = 0
    /\ top_artists_plays = <<>> /\ top_artists_minutes = <<>>
    /\ top_songs_plays = <<>> /\ top_songs_minutes = <<>>
    /\ monthly_stats = <<>> /\ dow_stats = <<>> /\ platform_stats = <<>>

----------------------------------------------------------------------------
(* load_streaming_files                                                    *)

ValueError(msg) == [type |-> "ValueError", arg |-> msg]
KeyError(key) == [type |-> "KeyError", arg |-> key]

\* what pd.read_json raises on a file that is not JSON: the decoder's
\* message, which does not hold the path
ReadJsonError(p) == ValueError("Expected object or value")

\* lines 36-37: stream_date from the parsed ts, then ts parsed in place
ParseRow(r) ==
    [ts |-> ToDatetime(r.ts), stream_date |-> DtDate(ToDatetime(r.ts)),
     ms_played |-> r.ms_played,
     master_metadata_track_name |-> r.master_metadata_track_name,
     master_metadata_album_artist_name |-> r.master_metadata_album_artist_name,
     spotify_track_uri |-> r.spotify_track_uri, platform |-> r.platform,
     ip_addr |-> r.ip_addr]

ParseRows(rows) == [k \in 1..Len(rows) |-> ParseRow(rows[k])]

\* line 41 with the bound excluded
MinFilter_Strict(data, d) == SelectSeq(data, LAMBDA r : r.stream_date > BoundDate(d))

\* line 41
MinFilter(data, d) == SelectSeq(data, LAMBDA r : r.stream_date >= BoundDate(d))

\* line 43
MaxFilter(data, d) == SelectSeq(data, LAMBDA r : r.stream_date <= BoundDate(d))

\* line 45 left out
DropNaTrack_Missing(data) == data

\* line 45
DropNaTrack(data) == SelectSeq(data, LAMBDA r : r.master_metadata_track_name # NULL)

\* lines 40-46 on a frame that has its columns
FilterRows(data, mn, mx) ==
    LET a == IF mn # None THEN MinFilter(data, mn) ELSE data
        b == IF mx # None THEN MaxFilter(a, mx) ELSE a
    IN  DropNaTrack(b)

\* lines 40-45 on pd.DataFrame(), which has no column: the first column
\* looked up raises
FilterError(cols, mn, mx) ==
    IF cols THEN NoError
    ELSE IF mn # None \/ mx # None THEN KeyError("stream_date")
    ELSE KeyError("master_metadata_track_name")

Raise(e) ==
    /\ error' = e
    /\ pc' = "error"
    /\ UNCHANGED <<todo, streaming_data, columns, audio_2025_df>>

\* a loop that catches the decoder's error and goes on to the next file
ReadFailure_Skip(p) ==
    IF ~files[p].valid
    THEN /\ todo' = Tail(todo)
         /\ UNCHANGED <<pc, error, streaming_data, columns, audio_2025_df>>
    ELSE Raise(KeyError("ts"))

\* what one iteration does with a file that cannot be read or has no record
ReadFailure(p) ==
    IF ~files[p].valid THEN Raise(ReadJsonError(p))
    ELSE Raise(KeyError("ts"))

\* lines 34-38: one iteration of the loop.  A file holding [] reads as a
\* frame without columns, and df_temp["ts"] raises.
ReadFile ==
    /\ pc = "load"
    /\ todo # <<>>
    /\ LET p == Head(todo) IN
        IF ~files[p].valid \/ files[p].rows = <<>>
        THEN ReadFailure(p)
        ELSE /\ streaming_data' = streaming_data \o ParseRows(files[p].rows)
             /\ columns' = TRUE
             /\ todo' = Tail(todo)
             /\ UNCHANGED <<pc, error, audio_2025_df>>
    /\ UNCHANGED <<inputs, metrics, tables>>

\* lines 40-46 and the assignment of line 64
FilterAndReturn ==
    /\ pc = "load"
    /\ todo = <<>>
    /\ IF FilterError(columns, min_date, max_date) # NoError
       THEN Raise(FilterError(columns, min_date, max_date))
       ELSE /\ audio_2025_df' = FilterRows(streaming_data, min_date, max_date)
            /\ pc' = "clean"
            /\ UNCHANGED <<todo, streaming_data, columns, error>>
    /\ UNCHANGED <<inputs, metrics, tables>>

----------------------------------------------------------------------------
(* clean_streaming_data.  seconds and minutes are floats; they are held    *)
(* exactly, seconds in units of 1/1000 s and minutes in units of 1/60000   *)
(* min, so both have the numerator ms_played.  The columns reason_start,   *)
(* reason_end, skipped and album name are carried by no record here.       *)

CleanRow(r) ==
    [platform |-> r.platform, ms_played |-> r.ms_played,
     master_metadata_track_name |-> r.master_metadata_track_name,
     master_metadata_album_artist_name |-> r.master_metadata_album_artist_name,
     spotify_track_uri |-> r.spotify_track_uri,
     stream_date |-> r.stream_date, ts |-> r.ts,
     seconds |-> r.ms_played, minutes |-> r.ms_played]

CleanStreamingData ==
    /\ pc = "clean"
    /\ audio_2025_df' = [k \in 1..Len(audio_2025_df) |-> CleanRow(audio_2025_df[k])]
    /\ pc' = "metrics"
    /\ UNCHANGED <<inputs, todo, streaming_data, columns, error, metrics, tables>>

----------------------------------------------------------------------------
(* Aggregation.                                                            *)

Track(r) == r.master_metadata_track_name
Artist(r) == r.master_metadata_album_artist_name

RowsOf(df) == {df[k] : k \in 1..Len(df)}

RECURSIVE SumMinutes(_)
\* Series.sum() of the minutes column; 0 on an empty column
SumMinutes(df) == IF df = <<>> THEN 0 ELSE Head(df).minutes + SumMinutes(Tail(df))

\* Series.count() of spotify_track_uri: the cells that are not null
CountUri(df) == Len(SelectSeq(df, LAMBDA r : r.spotify_track_uri # NULL))

\* Series.count() of master_metadata_track_name
CountTrack(df) == Len(SelectSeq(df, LAMBDA r : Track(r) # NULL))

\* the keys of groupby(artist), which drops a null key
ArtistKeys(df) == {Artist(r) : r \in RowsOf(df)} \ {NULL}

\* the keys of groupby([track, artist]), which drops a key with a null part
SongKeys(df) ==
    {<<Track(r), Artist(r)>> : r \in {x \in RowsOf(df) : Track(x) # NULL /\ Artist(x) # NULL}}

MonthKeys(df) == {ToPeriodM(r.stream_date) : r \in RowsOf(df)}
DayKeys(df) == {DayName(r.stream_date) : r \in RowsOf(df)}
PlatformKeys(df) == {r.platform : r \in RowsOf(df)} \ {NULL}

ArtistGroup(df, a) == SelectSeq(df, LAMBDA r : Artist(r) = a)
SongGroup(df, k) == SelectSeq(df, LAMBDA r : Track(r) = k[1] /\ Artist(r) = k[2])
MonthGroup(df, m) == SelectSeq(df, LAMBDA r : ToPeriodM(r.stream_date) = m)
DayGroup(df, d) == SelectSeq(df, LAMBDA r : DayName(r.stream_date) = d)
PlatformGroup(df, p) == SelectSeq(df, LAMBDA r : r.platform = p)

SongRank(k) == StrRank(k[1]) * (Len(Lexicographic) + 1) + StrRank(k[2])
MonthRank(m) == m[1] * 12 + m[2]

\* lines 74-77
TotalMinutes(df) == SumMinutes(df)
TotalSongs(df) == CountUri(df)
UniqueSongs(df) == Cardinality(SongKeys(df))
UniqueArtists(df) == Cardinality(ArtistKeys(df))

KeyMetrics ==
    /\ pc = "metrics"
    /\ total_minutes' = TotalMinutes(audio_2025_df)
    /\ total_songs' = TotalSongs(audio_2025_df)
    /\ unique_songs' = UniqueSongs(audio_2025_df)
    /\ unique_artists' = UniqueArtists(audio_2025_df)
    /\ pc' = "tab2"
    /\ UNCHANGED <<inputs, todo, streaming_data, columns, audio_2025_df, error, tables>>

----------------------------------------------------------------------------
(* Grouped tables.  groupby() lists its groups in ascending key order;     *)
(* sort_values(col, ascending=False) uses the default kind, quicksort,     *)
(* which is not stable: any order of the rows that is descending in col    *)
(* can come out.                                                           *)

Orderings(n) == {f \in [1..n -> 1..n] : \A a, b \in 1..n : f[a] = f[b] => a = b}

Descending(t, col) == \A a, b \in 1..Len(t) : a < b => t[a][col] >= t[b][col]

\* sort_values(col) with the default ascending=True
SortValues_Ascending(frame, col) ==
    {t \in {[k \in 1..Len(frame) |-> frame[f[k]]] : f \in Orderings(Len(frame))} :
        \A a, b \in 1..Len(t) : a < b => t[a][col] <= t[b][col]}

\* the frames sort_values(col, ascending=False) can return
SortValues(frame, col) ==
    {t \in {[k \in 1..Len(frame) |-> frame[f[k]]] : f \in Orderings(Len(frame))} :
        Descending(t, col)}

HeadLimit == 15

\* .head(15)
HeadRows(frame) == SubSeq(frame, 1, IF Len(frame) < HeadLimit THEN Len(frame) ELSE HeadLimit)

\* line 129-130 before the sort: one row per artist, plays = count(track name)
ArtistsPlays(df) ==
    LET keys == SortedSeq(ArtistKeys(df), [x \in ArtistKeys(df) |-> StrRank(x)])
    IN  [k \in 1..Len(keys) |->
            [master_metadata_album_artist_name |-> keys[k],
             plays |-> CountTrack(ArtistGroup(df, keys[k]))]]

\* lines 142-143 before the sort
ArtistsMinutes(df) ==
    LET keys == SortedSeq(ArtistKeys(df), [x \in ArtistKeys(df) |-> StrRank(x)])
    IN  [k \in 1..Len(keys) |->
            [master_metadata_album_artist_name |-> keys[k],
             minutes |-> SumMinutes(ArtistGroup(df, keys[k]))]]

\* lines 158-160 before the sort
SongsPlays(df) ==
    LET keys == SortedSeq(SongKeys(df), [x \in SongKeys(df) |-> SongRank(x)])
    IN  [k \in 1..Len(keys) |->
            [master_metadata_track_name |-> keys[k][1],
             master_metadata_album_artist_name |-> keys[k][2],
             plays |-> CountTrack(SongGroup(df, keys[k]))]]

\* lines 173-175 before the sort
SongsMinutes(df) ==
    LET keys == SortedSeq(SongKeys(df), [x \in SongKeys(df) |-> SongRank(x)])
    IN  [k \in 1..Len(keys) |->
            [master_metadata_track_name |-> keys[k][1],
             master_metadata_album_artist_name |-> keys[k][2],
             minutes |-> SumMinutes(SongGroup(df, keys[k]))]]

\* lines 191-197: Month is the period <<year, month>>
MonthlyStats(df) ==
    LET keys == SortedSeq(MonthKeys(df), [x \in MonthKeys(df) |-> MonthRank(x)])
    IN  [k \in 1..Len(keys) |->
            [Month |-> keys[k],
             minutes |-> SumMinutes(MonthGroup(df, keys[k])),
             plays |-> CountUri(MonthGroup(df, keys[k]))]]

\* lines 208-210 without the reindex: only the days that have a group
DowStats_NoReindex(df) ==
    LET present == SelectSeq(day_order, LAMBDA d : d \in DayKeys(df))
    IN  [k \in 1..Len(present) |->
            [day_of_week |-> present[k],
             minutes |-> <<SumMinutes(DayGroup(df, present[k]))>>]]

\* lines 208-210: reindex(day_order) has no fill_value, so a label that is
\* not a group of the groupby gets NaN
DowStats(df) ==
    [k \in 1..Len(day_order) |->
        [day_of_week |-> day_order[k],
         minutes |-> IF day_order[k] \in DayKeys(df)
                     THEN <<SumMinutes(DayGroup(df, day_order[k]))>>
                     ELSE <<>>]]

\* lines 237-241
PlatformStats(df) ==
    LET keys == SortedSeq(PlatformKeys(df), [x \in PlatformKeys(df) |-> StrRank(x)])
    IN  [k \in 1..Len(keys) |->
            [Platform |-> keys[k],
             minutes |-> SumMinutes(PlatformGroup(df, keys[k])),
             plays |-> CountUri(PlatformGroup(df, keys[k]))]]

\* lines 124-151
Tab2Artists ==
    /\ pc = "tab2"
    /\ \E t \in SortValues(ArtistsPlays(audio_2025_df), "plays") :
          top_artists_plays' = HeadRows(t)
    /\ \E t \in SortValues(ArtistsMinutes(audio_2025_df), "minutes") :
          top_artists_minutes' = HeadRows(t)
    /\ pc' = "tab3"
    /\ UNCHANGED <<inputs, todo, streaming_data, columns, audio_2025_df, error, metrics,
                   top_songs_plays, top_songs_minutes, monthly_stats, dow_stats,
                   platform_stats>>

\* lines 153-184
Tab3Songs ==
    /\ pc = "tab3"
    /\ \E t \in SortValues(SongsPlays(audio_2025_df), "plays") :
          top_songs_plays' = HeadRows(t)
    /\ \E t \in SortValues(SongsMinutes(audio_2025_df), "minutes") :
          top_songs_minutes' = HeadRows(t)
    /\ pc' = "tab4"
    /\ UNCHANGED <<inputs, todo, streaming_data, columns, audio_2025_df, error, metrics,
                   top_artists_plays, top_artists_minutes, monthly_stats, dow_stats,
                   platform_stats>>

\* lines 186-218
Tab4Timeline ==
    /\ pc = "tab4"
    /\ monthly_stats' = MonthlyStats(audio_2025_df)
    /\ dow_stats' = DowStats(audio_2025_df)
    /\ pc' = "tab5"
    /\ UNCHANGED <<inputs, todo, streaming_data, columns, audio_2025_df, error, metrics,
                   top_artists_plays, top_artists_minutes, top_songs_plays,
                   top_songs_minutes, platform_stats>>

\* lines 232-241
Tab5Platform ==
    /\ pc = "tab5"
    /\ platform_stats' = PlatformStats(audio_2025_df)
    /\ pc' = "done"
    /\ UNCHANGED <<inputs, todo, streaming_data, columns, audio_2025_df, error, metrics,
                   top_artists_plays, top_artists_minutes, top_songs_plays,
                   top_songs_minutes, monthly_stats, dow_stats>>

Next ==
    \/ ReadFile
    \/ FilterAndReturn
    \/ CleanStreamingData
    \/ KeyMetrics
    \/ Tab2Artists
    \/ Tab3Songs
    \/ Tab4Timeline
    \/ Tab5Platform

Spec == Init /\ [][Next]_vars

----------------------------------------------------------------------------
(* Properties.                                                             *)

\* pc once load_streaming_files has returned its frame
Returned == pc \in {"clean", "metrics", "tab2", "tab3", "tab4", "tab5", "done"}
AfterMetrics == pc \in {"tab2", "tab3", "tab4", "tab5", "done"}
AfterTab3 == pc \in {"tab4", "tab5", "done"}
AfterTab4 == pc \in {"tab5", "done"}

\* the records of the files of paths, by file and position
LoadedRecords ==
    UNION {{<<p, k>> : k \in 1..Len(files[p].rows)} :
              p \in {q \in DOMAIN files : InList(q, paths)}}

RecordAt(pk) == files[pk[1]].rows[pk[2]]
StreamDate(r) == DtDate(ToDatetime(r.ts))

InDateRange(r) ==
    /\ (min_date = None \/ StreamDate(r) >= BoundDate(min_date))
    /\ (max_date = None \/ StreamDate(r) <= BoundDate(max_date))

Expected == {pk \in LoadedRecords :
                RecordAt(pk).master_metadata_track_name # NULL /\ InDateRange(RecordAt(pk))}

\* C1: what load_streaming_files returns is exactly the records with a track
\* name whose stream date lies between min_date and max_date, both bounds
\* included, each bound applying only when given.
C1_DateRangeInclusive ==
    pc = "clean" =>
        /\ \A pk \in LoadedRecords :
              RecordAt(pk).master_metadata_track_name # NULL =>
                 (ParseRow(RecordAt(pk)) \in RowsOf(audio_2025_df) <=> pk \in Expected)
        /\ Len(audio_2025_df) = Cardinality(Expected)

\* a load with both bounds that kept a record dated min_date and one dated
\* max_date and dropped one a day outside
C1_Witness ==
    /\ pc = "clean" /\ min_date # None /\ max_date # None
    /\ \E r \in RowsOf(audio_2025_df) : r.stream_date = BoundDate(min_date)
    /\ \E r \in RowsOf(audio_2025_df) : r.stream_date = BoundDate(max_date)
    /\ \E pk \in LoadedRecords :
          /\ RecordAt(pk).master_metadata_track_name # NULL
          /\ StreamDate(RecordAt(pk)) \in {BoundDate(min_date) - 1, BoundDate(max_date) + 1}
          /\ ParseRow(RecordAt(pk)) \notin RowsOf(audio_2025_df)

\* C2: no row of the returned frame, nor of the frame the aggregations
\* read, has a null track name, whatever the date bounds.
C2_NoNullTrackName ==
    Returned => \A r \in RowsOf(audio_2025_df) : Track(r) # NULL

\* a load that returned rows and whose files held a record without track
\* name inside the date range
C2_Witness ==
    /\ pc = "clean" /\ audio_2025_df # <<>>
    /\ \E pk \in LoadedRecords :
          /\ RecordAt(pk).master_metadata_track_name = NULL
          /\ InDateRange(RecordAt(pk))

\* C3: with an empty paths list the run raises nothing and ends with all
\* metrics zero and all top tables empty.
C3_EmptyPathsAllZero ==
    paths = <<>> =>
        /\ pc # "error"
        /\ pc = "done" =>
              /\ total_minutes = 0 /\ total_songs = 0
              /\ unique_songs = 0 /\ unique_artists = 0
              /\ top_artists_plays = <<>> /\ top_songs_plays = <<>>

\* position of the first row of df that belongs to the group of table row g
FirstSeenArtist(g) ==
    CHOOSE k \in 1..Len(audio_2025_df) :
        /\ Artist(audio_2025_df[k]) = g.master_metadata_album_artist_name
        /\ \A j \in 1..(k - 1) :
              Artist(audio_2025_df[j]) # g.master_metadata_album_artist_name

FirstSeenSong(g) ==
    CHOOSE k \in 1..Len(audio_2025_df) :
        /\ Track(audio_2025_df[k]) = g.master_metadata_track_name
        /\ Artist(audio_2025_df[k]) = g.master_metadata_album_artist_name
        /\ \A j \in 1..(k - 1) :
              ~ /\ Track(audio_2025_df[j]) = g.master_metadata_track_name
                /\ Artist(audio_2025_df[j]) = g.master_metadata_album_artist_name

PlaysOfArtist(a) == Cardinality({k \in 1..Len(audio_2025_df) : Artist(audio_2025_df[k]) = a})
PlaysOfSong(t, a) ==
    Cardinality({k \in 1..Len(audio_2025_df) :
                    Track(audio_2025_df[k]) = t /\ Artist(audio_2025_df[k]) = a})

C5_UniqueTracksLeStreams ==
    AfterMetrics => unique_songs <= total_songs

\* C6: the day-of-week table has exactly seven rows, Monday to Sunday in
\* calendar order, for every event set.
C6_SevenRowsInOrder ==
    AfterTab4 =>
        /\ Len(dow_stats) = 7
        /\ [k \in 1..Len(dow_stats) |-> dow_stats[k].day_of_week]
              = <<"Monday", "Tuesday", "Wednesday", "Thursday", "Friday",
                  "Saturday", "Sunday">>

\* events on some weekdays and none on others
C6_Witness ==
    /\ AfterTab4
    /\ audio_2025_df # <<>>
    /\ Cardinality(DayKeys(audio_2025_df)) = 2
    /\ Len(dow_stats) = 7

MinutesOn(day) ==
    SumMinutes(SelectSeq(audio_2025_df, LAMBDA r : DayName(r.stream_date) = day))

\* C7: every weekday row carries the sum of the minutes of its events,
\* which is 0 for a weekday without events.
C7_ZeroFilled ==
    AfterTab4 =>
        \A k \in 1..Len(dow_stats) :
            dow_stats[k].minutes = <<MinutesOn(dow_stats[k].day_of_week)>>

\* C8: the number of unique tracks is the number of distinct
\* (track name, artist name) pairs among the events, a pair with a null
\* artist name included.
C8_UniqueTracksCountsPairs ==
    AfterMetrics =>
        unique_songs = Cardinality({<<Track(r), Artist(r)>> : r \in RowsOf(audio_2025_df)})

\* C9: in the artist, track, month and platform tables the count of a
\* group is the number of events of the group.
C9_CountIsGroupSize ==
    pc = "done" =>
        /\ \A g \in RowsOf(top_artists_plays) :
              g.plays = PlaysOfArtist(g.master_metadata_album_artist_name)
        /\ \A g \in RowsOf(top_songs_plays) :
              g.plays = PlaysOfSong(g.master_metadata_track_name,
                                    g.master_metadata_album_artist_name)
        /\ \A g \in RowsOf(monthly_stats) :
              g.plays = Cardinality({k \in 1..Len(audio_2025_df) :
                                        ToPeriodM(audio_2025_df[k].stream_date) = g.Month})
        /\ \A g \in RowsOf(platform_stats) :
              g.plays = Cardinality({k \in 1..Len(audio_2025_df) :
                                        audio_2025_df[k].platform = g.Platform})

HasMalformed == \E p \in DOMAIN files : InList(p, paths) /\ ~files[p].valid
NoEmptyFile == \A p \in DOMAIN files : InList(p, paths) /\ files[p].valid => files[p].rows # <<>>

\* C10 as stated: a malformed file ends the load in a ParseError that names
\* that file, and nothing is returned.
C10_ParseErrorNamesFile ==
    (HasMalformed /\ NoEmptyFile /\ pc # "load") =>
        /\ pc = "error"
        /\ error.type = "ParseError"
        /\ error.arg \in DOMAIN files
        /\ audio_2025_df = <<>>

\* C10 as amended: a malformed file ends the load in the exception of
\* read_json, a ValueError when no file before it is an empty array;
\* nothing is returned and no later step runs.
C10_MalformedAbortsLoad ==
    (HasMalformed /\ pc # "load") =>
        /\ pc = "error"
        /\ error.type \in {"ValueError", "KeyError"}
        /\ NoEmptyFile => error = ValueError("Expected object or value")
        /\ audio_2025_df = <<>>
        /\ todo # <<>>
        /\ ~files[Head(todo)].valid \/ files[Head(todo)].rows = <<>>

\* the first file was read and held rows, the second one is malformed
C10_Witness ==
    /\ pc = "error"
    /\ HasMalformed
    /\ streaming_data # <<>>
    /\ error.type = "ValueError"
    /\ audio_2025_df = <<>>

====
